---- MODULE Spec2Model ----
(***************************************************************************)
(* Model of src/app.py, the AB ETF live AUM dashboard: the overrides       *)
(* loader, the price and shares resolvers, and the per-refresh valuation   *)
(* loop with its portfolio total and missing-shares list.                  *)
(*                                                                         *)
(* One run of the script is a refresh cycle: Begin (lines 151-152), one    *)
(* Step per ticker (lines 153-159), Finish (lines 161-162).  The three     *)
(* st.cache_data caches survive from one cycle to the next until their     *)
(* entries expire.  The market-data provider (yfinance) is the             *)
(* environment: what it answers is chosen nondeterministically whenever    *)
(* the code really calls it.                                               *)
(***************************************************************************)
EXTENDS Integers, Sequences, FiniteSets, TLC

VARIABLES
    pc,             \* "idle" | "loop" | "done" | "crashed": position of the script
    i,              \* index of the ticker the loop of line 153 is at
    overrides,      \* the DataFrame bound to `overrides` (line 151)
    ov_cache,       \* st.cache_data entry of _load_overrides
    load_failed,    \* whether the load behind the cached DataFrame took the except branch
    fast_cache,     \* st.cache_data entries of _get_fast_info, per ticker
    info_cache,     \* st.cache_data entries of _get_info, per ticker
    rows,           \* the list `rows` (line 152, 157)
    missing,        \* the list `missing` (line 152, 159)
    total_est,      \* total_est (line 162)
    resolved,       \* per ticker, the price the last resolution inside the current quote window returned
    provider_calls  \* calls the last Step made to the provider (for the price, for the shares), and whether its quote came from the cache

vars == <<pc, i, overrides, ov_cache, load_failed, fast_cache, info_cache,
          rows, missing, total_est, resolved, provider_calls>>

(***************************************************************************)
(* Python values.  None, NaN, a number and a non-numeric string are kept   *)
(* apart because the code treats each of them differently.                 *)
(***************************************************************************)
None == [k |-> "none"]
NaN == [k |-> "nan"]
Str == [k |-> "str"]
Num(v) == [k |-> "num", v |-> v]

IsNum(x) == x.k = "num"

\* Python truthiness: None and 0 are falsy; NaN, other numbers and
\* non-empty strings are truthy.
Truthy(x) == CASE x.k = "none" -> FALSE
               [] x.k = "num" -> x.v # 0
               [] OTHER -> TRUE

\* Python `a or b`.
Or(a, b) == IF Truthy(a) THEN a ELSE b

\* x > 0 for a number; every comparison with NaN is False.
Positive(x) == IsNum(x) /\ x.v > 0

\* int(a / b) for b > 0: Python's int() truncates toward zero.
TruncDiv(a, b) == IF a >= 0 THEN a \div b ELSE -((-a) \div b)

\* price * shares in floating point: NaN times anything is NaN.
Mul(p, s) == IF p.k = "nan" \/ s.k = "nan" THEN NaN ELSE Num(p.v * s.v)

TICKERS == <<"LRGC", "HIDV">>

\* [t.upper() for t in TICKERS], and str.upper of the CSV's ticker column.
\* NA is an empty cell, which str.upper leaves alone.
NA == "<NA>"
Upper(s) == CASE s = "lrgc" -> "LRGC"
              [] s = "hidv" -> "HIDV"
              [] OTHER -> s

UpperTickers == [n \in 1..Len(TICKERS) |-> Upper(TICKERS[n])]
TickerSet == {UpperTickers[n] : n \in 1..Len(TICKERS)}

(***************************************************************************)
(* The overrides file and _load_overrides (lines 88-97).                   *)
(***************************************************************************)
MaxRows == 2

\* The rows an operator's shares_overrides.csv may hold: lower-case and
\* upper-case tickers, an empty ticker cell, an empty, zero, positive or
\* non-numeric shares cell.  (The downloadable template of line 200 is one
\* row per ticker with shares_outstanding 0.)
CsvRow(t, s) == [ticker |-> t, shares_outstanding |-> s]
CsvRows ==
    { CsvRow("lrgc", Num(300)), CsvRow("LRGC", Num(0)), CsvRow("LRGC", Num(500)),
      CsvRow("HIDV", None), CsvRow(NA, Num(300)), CsvRow("HIDV", Str) }

RECURSIVE SeqsUpTo(_, _)
SeqsUpTo(S, n) ==
    IF n = 0 THEN {<<>>}
    ELSE LET shorter == SeqsUpTo(S, n - 1) IN
         shorter \cup {Append(q, x) : q \in {r \in shorter : Len(r) = n - 1}, x \in S}

\* What pd.read_csv(path) finds: no file, a table without the
\* shares_outstanding column, or a table with both columns.
CsvFiles ==
    {[k |-> "nofile", rows |-> <<>>]}
    \cup {[k |-> "nocolumn", rows |-> <<>>]}
    \cup {[k |-> "table", rows |-> r] : r \in SeqsUpTo(CsvRows, MaxRows)}

EmptyFrame == <<>>

\* The numeric rows of a table, upper-cased, in file order.
NumericRows(csv) ==
    LET Kept(r) == r.ticker # NA /\ r.shares_outstanding.k = "num"
        kept == SelectSeq(csv.rows, Kept)
    IN  [n \in 1..Len(kept) |->
            [ticker |-> Upper(kept[n].ticker),
             shares_outstanding |-> kept[n].shares_outstanding.v]]

\* The mutant: a load that fails on a malformed cell keeps the rows it
\* could parse instead of returning the empty frame.
LoadOverridesKeepsRows(csv) ==
    [failed |-> csv.k # "table"
                \/ (\E n \in 1..Len(csv.rows) :
                      /\ csv.rows[n].ticker # NA
                      /\ csv.rows[n].shares_outstanding.k = "str")
                \/ (Len(csv.rows) > 0 /\ \A n \in 1..Len(csv.rows) : csv.rows[n].ticker = NA),
     df |-> NumericRows(csv)]

\* _load_overrides: the result, and whether the except branch was taken.
\*   read_csv raises on a missing file; a missing column raises KeyError;
\*   .str of a column holding only empty cells raises AttributeError;
\*   dropna drops rows with an empty ticker or shares cell;
\*   astype(int) raises on a non-numeric cell that is left.
\* Rows keep the file's order; nothing drops a non-positive count or a
\* second row of the same ticker.
LoadOverrides(csv) ==
    IF csv.k # "table" THEN [failed |-> TRUE, df |-> EmptyFrame]
    ELSE
    LET raw == csv.rows
        allNA == Len(raw) > 0 /\ \A n \in 1..Len(raw) : raw[n].ticker = NA
        up == [n \in 1..Len(raw) |->
                  CsvRow(Upper(raw[n].ticker), raw[n].shares_outstanding)]
        Kept(r) == r.ticker # NA /\ r.shares_outstanding.k # "none"
        kept == SelectSeq(up, Kept)
        bad == \E n \in 1..Len(kept) : kept[n].shares_outstanding.k # "num"
    IN  IF allNA \/ bad THEN [failed |-> TRUE, df |-> EmptyFrame]
        ELSE [failed |-> FALSE,
              df |-> [n \in 1..Len(kept) |->
                        [ticker |-> kept[n].ticker,
                         shares_outstanding |-> kept[n].shares_outstanding.v]]]

(***************************************************************************)
(* The market-data provider and the cached fetchers (lines 69-86).         *)
(***************************************************************************)
Raise == [k |-> "raise"]
NotCached == [k |-> "notcached"]

\* A quote snapshot: dict.get(k) of a key that is not there is None.
FastInfo(a, b, c) ==
    [k |-> "dict", last_price |-> a, regularMarketPrice |-> b, currentPrice |-> c]
EmptyFastInfo == FastInfo(None, None, None)
FastInfos ==
    { EmptyFastInfo,
      FastInfo(Num(10), None, None),
      FastInfo(NaN, Num(50), None),
      FastInfo(Num(0), Num(10), None),
      FastInfo(Str, None, Num(-5)) }

\* A fundamentals snapshot.
Info(so, fso, ta, na) ==
    [k |-> "dict", sharesOutstanding |-> so, fundSharesOutstanding |-> fso,
     totalAssets |-> ta, netAssets |-> na]
EmptyInfo == Info(None, None, None, None)
Infos ==
    { EmptyInfo,
      Info(Num(700), None, None, None),
      Info(Num(0), Num(700), Num(20), None),
      Info(None, None, Num(100000000), None),
      Info(None, None, Num(0), Num(5000000)),
      Info(None, None, Num(20), None) }

\* What the provider does when _get_fast_info really runs: the Ticker
\* constructor raises, or the fast_info property raises, or it answers.
FastFetches ==
    {[ctor |-> "raise", fast_info |-> Raise]}
    \cup {[ctor |-> "ok", fast_info |-> f] : f \in FastInfos \cup {Raise}}

\* What the provider does when _get_info really runs: the constructor
\* raises, or get_info() answers, or it raises and the info property
\* answers or raises too.
InfoFetches ==
    {[ctor |-> "raise", get_info |-> Raise, info |-> Raise]}
    \cup {[ctor |-> "ok", get_info |-> x, info |-> Raise] : x \in Infos}
    \cup {[ctor |-> "ok", get_info |-> Raise, info |-> x] : x \in Infos \cup {Raise}}

\* Ticker.history(period="1d", interval="1m"): raises, has no bar, or the
\* Close of its last bar (NaN for a bar without trades).
Bars(c) == [k |-> "bars", close |-> c]
NoBars == [k |-> "empty", close |-> None]
HistRaise == [k |-> "raise", close |-> None]
Histories == {HistRaise, NoBars, Bars(Num(10)), Bars(Num(25)), Bars(NaN)}

\* _get_fast_info's body (lines 71-75): Raise when the exception escapes
\* (the constructor is outside the try), else the value returned.
GetFastInfo(f) ==
    IF f.ctor = "raise" THEN Raise
    ELSE IF f.fast_info = Raise THEN EmptyFastInfo
    ELSE f.fast_info

\* _get_info's body (lines 79-86).
GetInfo(f) ==
    IF f.ctor = "raise" THEN Raise
    ELSE IF f.get_info # Raise THEN f.get_info
    ELSE IF f.info # Raise THEN f.info
    ELSE EmptyInfo

(***************************************************************************)
(* _get_last_price (lines 99-115).                                         *)
(***************************************************************************)
PriceKeys == <<"last_price", "regularMarketPrice", "currentPrice">>

\* The loop of lines 101-107 from key n on: the first value that is not
\* None, not NaN and that float() converts, whatever its sign; None when
\* no key has one.
RECURSIVE QuoteField(_, _)
QuoteField(fi, n) ==
    IF n > Len(PriceKeys) THEN None
    ELSE LET v == fi[PriceKeys[n]] IN
         IF v.k = "num" THEN v ELSE QuoteField(fi, n + 1)

\* Whether lines 109-114 run: the loop returned nothing.
NeedsHistory(fi) == QuoteField(fi, 1) = None

\* Lines 109-115: float() of the last bar's Close, NaN included.
HistoryPrice(h) == IF h.k = "bars" THEN h.close ELSE None

GetLastPrice(fi, h) ==
    IF NeedsHistory(fi) THEN HistoryPrice(h) ELSE QuoteField(fi, 1)

(***************************************************************************)
(* _infer_shares_from_info and _get_shares_outstanding (lines 117-138).    *)
(***************************************************************************)
\* The mutant: the estimate is returned without the est_shares > 0 check.
EstimateSharesAcceptsZero(total_assets, last_price) ==
    IF Truthy(total_assets) /\ Truthy(last_price) /\ Positive(last_price)
    THEN IF IsNum(total_assets)
         THEN Num(TruncDiv(total_assets.v, last_price.v))
         ELSE None
    ELSE None

\* Lines 123-130: int(total_assets / last_price) when both are truthy,
\* the price is > 0 and the quotient is > 0.  float() of a non-numeric
\* string and int() of NaN raise, which the except turns into None.
EstimateShares(total_assets, last_price) ==
    IF Truthy(total_assets) /\ Truthy(last_price) /\ Positive(last_price)
    THEN IF IsNum(total_assets) /\ TruncDiv(total_assets.v, last_price.v) > 0
         THEN Num(TruncDiv(total_assets.v, last_price.v))
         ELSE None
    ELSE None

\* Lines 118-122, then the fallback.
InferSharesFromInfo(info, last_price) ==
    LET shares == Or(info.sharesOutstanding, info.fundSharesOutstanding)
        total_assets == Or(info.totalAssets, info.netAssets)
    IN  IF Positive(shares) THEN Num(shares.v)
        ELSE EstimateShares(total_assets, last_price)

\* overrides_df.loc[overrides_df["ticker"] == ticker]
OverrideRows(df, ticker) == SelectSeq(df, LAMBDA r : r.ticker = ticker)

\* Lines 133-137: the first matching row, when its count is positive.
OverrideHit(df, ticker) ==
    /\ Len(OverrideRows(df, ticker)) > 0
    /\ OverrideRows(df, ticker)[1].shares_outstanding > 0

GetSharesOutstanding(ticker, last_price, df, info) ==
    IF OverrideHit(df, ticker)
    THEN Num(OverrideRows(df, ticker)[1].shares_outstanding)
    ELSE InferSharesFromInfo(info, last_price)

(***************************************************************************)
(* The valuation loop and the total (lines 151-162).                       *)
(***************************************************************************)
\* The mutant: an unvalued ticker is given an AUM of 0.
EstAumDefaultsToZero(price, shares) ==
    IF price # None /\ shares # None THEN Mul(price, shares) ELSE Num(0)

\* Line 156.
EstAum(price, shares) ==
    IF price # None /\ shares # None THEN Mul(price, shares) ELSE None

Row(t, price, shares) ==
    [Ticker |-> t, LastPrice |-> price, SharesOutstanding |-> shares,
     EstAumUSD |-> EstAum(price, shares)]

\* The mutant: the warning list is fed by a missing price.
IsMissingByPrice(price, shares) == price = None

\* Line 158.
IsMissing(price, shares) == shares = None

\* [r["Est. AUM (USD)"] for r in rows if r.get("Est. AUM (USD)") is not None]
PresentAums(rs) ==
    LET aums == [n \in 1..Len(rs) |-> rs[n].EstAumUSD]
    IN  SelectSeq(aums, LAMBDA a : a # None)

\* np.sum: one NaN makes the sum NaN.
RECURSIVE PlainSum(_)
PlainSum(xs) ==
    IF xs = <<>> THEN Num(0)
    ELSE IF Head(xs).k = "nan" \/ PlainSum(Tail(xs)).k = "nan" THEN NaN
    ELSE Num(Head(xs).v + PlainSum(Tail(xs)).v)

\* np.nansum: NaN counts as 0.
RECURSIVE NanSum(_)
NanSum(xs) ==
    IF xs = <<>> THEN Num(0)
    ELSE Num((IF Head(xs).k = "nan" THEN 0 ELSE Head(xs).v) + NanSum(Tail(xs)).v)

\* Line 162.
TotalEst(rs) == IF Len(rs) > 0 THEN NanSum(PresentAums(rs)) ELSE Num(0)

NoRes == [k |-> "nores"]
NoCalls == [quote_hit |-> FALSE, price |-> 0, shares |-> 0]
Calls(hit, p, s) == [quote_hit |-> hit, price |-> p, shares |-> s]

\* A call of a function under st.cache_data: the entry, when there is one
\* and its ttl (30 min, 6 h, 1 h) has not run out, else a real call, which
\* may meet anything the environment offers.
OverridesSource(csvs) ==
    {[hit |-> FALSE, csv |-> c] : c \in csvs}
    \cup (IF ov_cache # NotCached
          THEN {[hit |-> TRUE, csv |-> [k |-> "cached", rows |-> <<>>]]} ELSE {})
FastSource(t, fetches) ==
    {[hit |-> FALSE, f |-> x] : x \in fetches}
    \cup (IF fast_cache[t] # NotCached
          THEN {[hit |-> TRUE, f |-> [ctor |-> "ok", fast_info |-> fast_cache[t]]]}
          ELSE {})
InfoSource(t, consulted, fetches) ==
    IF ~consulted
    THEN {[hit |-> TRUE, f |-> [ctor |-> "ok", get_info |-> EmptyInfo, info |-> Raise]]}
    ELSE {[hit |-> FALSE, f |-> x] : x \in fetches}
         \cup (IF info_cache[t] # NotCached
               THEN {[hit |-> TRUE,
                      f |-> [ctor |-> "ok", get_info |-> info_cache[t], info |-> Raise]]}
               ELSE {})
\* fi.get(k) of a provider object fetches lazily and may raise; a plain {}
\* cannot.
FieldReads(fi) == IF fi = EmptyFastInfo THEN {FALSE} ELSE {FALSE, TRUE}
HistorySource(fi, hists) == IF NeedsHistory(fi) THEN hists ELSE {NoBars}

Init ==
    /\ pc = "idle"
    /\ i = 1
    /\ overrides = EmptyFrame
    /\ ov_cache = NotCached
    /\ load_failed = FALSE
    /\ fast_cache = [t \in TickerSet |-> NotCached]
    /\ info_cache = [t \in TickerSet |-> NotCached]
    /\ rows = <<>>
    /\ missing = <<>>
    /\ total_est = None
    /\ resolved = [t \in TickerSet |-> NoRes]
    /\ provider_calls = NoCalls

\* A (re)run of the script up to line 152, the overrides file being one of
\* csvs.
Begin(csvs) ==
    /\ pc \in {"idle", "done", "crashed"}
    /\ \E src \in OverridesSource(csvs) :
         IF src.hit
         THEN /\ overrides' = ov_cache.df
              /\ UNCHANGED <<ov_cache, load_failed>>
         ELSE /\ overrides' = LoadOverrides(src.csv).df
              /\ ov_cache' = [k |-> "df", df |-> LoadOverrides(src.csv).df]
              /\ load_failed' = LoadOverrides(src.csv).failed
    /\ pc' = "loop"
    /\ i' = 1
    /\ rows' = <<>>
    /\ missing' = <<>>
    /\ total_est' = None
    /\ provider_calls' = NoCalls
    /\ UNCHANGED <<fast_cache, info_cache, resolved>>

\* An exception escapes the loop body: the script stops where it is.
Crashed(fc, ic, rs, calls) ==
    /\ pc' = "crashed"
    /\ fast_cache' = fc
    /\ info_cache' = ic
    /\ resolved' = rs
    /\ provider_calls' = calls
    /\ UNCHANGED <<i, overrides, ov_cache, load_failed, rows, missing, total_est>>

\* One iteration of the loop of lines 153-159, the provider answering from
\* fasts, hists and infos.
Step(fasts, hists, infos) ==
    /\ pc = "loop"
    /\ i <= Len(UpperTickers)
    /\ LET t == UpperTickers[i] IN
       \E qs \in FastSource(t, fasts) :
         LET fi == GetFastInfo(qs.f)
             c1 == IF qs.hit THEN 0 ELSE 1
             \* a real call starts a new staleness window of the quote
             rs0 == IF qs.hit THEN resolved ELSE [resolved EXCEPT ![t] = NoRes]
         IN
         IF fi = Raise
         THEN Crashed([fast_cache EXCEPT ![t] = NotCached], info_cache, rs0,
                      Calls(qs.hit, c1, 0))
         ELSE
         \E readRaises \in FieldReads(fi) :
           LET fc == [fast_cache EXCEPT ![t] = fi] IN
           IF readRaises
           THEN Crashed(fc, info_cache, rs0, Calls(qs.hit, c1, 0))
           ELSE
           \E h \in HistorySource(fi, hists) :
             LET price == GetLastPrice(fi, h)
                 c2 == c1 + (IF NeedsHistory(fi) THEN 1 ELSE 0)
                 rs == [rs0 EXCEPT ![t] = price]
                 consulted == ~OverrideHit(overrides, t)
             IN
             \E is \in InfoSource(t, consulted, infos) :
               LET info == GetInfo(is.f)
                   c3 == IF is.hit THEN 0 ELSE 1
               IN
               IF info = Raise
               THEN Crashed(fc, [info_cache EXCEPT ![t] = NotCached], rs,
                            Calls(qs.hit, c2, c3))
               ELSE
               LET shares == GetSharesOutstanding(t, price, overrides, info) IN
               /\ rows' = Append(rows, Row(t, price, shares))
               /\ missing' = IF IsMissing(price, shares)
                             THEN Append(missing, t) ELSE missing
               /\ fast_cache' = fc
               /\ info_cache' = IF consulted
                                THEN [info_cache EXCEPT ![t] = info]
                                ELSE info_cache
               /\ resolved' = rs
               /\ provider_calls' = Calls(qs.hit, c2, c3)
               /\ i' = i + 1
               /\ UNCHANGED <<pc, overrides, ov_cache, load_failed, total_est>>

\* Lines 161-162, after the loop.
Finish ==
    /\ pc = "loop"
    /\ i > Len(UpperTickers)
    /\ total_est' = TotalEst(rows)
    /\ pc' = "done"
    /\ UNCHANGED <<i, overrides, ov_cache, load_failed, fast_cache, info_cache,
                   rows, missing, resolved, provider_calls>>

(***************************************************************************)
(* Specifications.  They share Init and the actions and differ in what     *)
(* the environment offers: Spec varies the quotes and bars, SpecShares     *)
(* the fundamentals, SpecOverrides the overrides file.                     *)
(***************************************************************************)
FewCsvFiles ==
    { [k |-> "nofile", rows |-> <<>>],
      [k |-> "table", rows |-> <<CsvRow("lrgc", Num(300))>>] }
FewFastFetches ==
    { [ctor |-> "ok", fast_info |-> EmptyFastInfo],
      [ctor |-> "ok", fast_info |-> FastInfo(NaN, Num(50), None)],
      [ctor |-> "ok", fast_info |-> FastInfo(Num(0), Num(10), None)] }
OneFastFetch == {[ctor |-> "ok", fast_info |-> FastInfo(Num(10), None, None)]}
FewInfoFetches ==
    { [ctor |-> "raise", get_info |-> Raise, info |-> Raise],
      [ctor |-> "ok", get_info |-> EmptyInfo, info |-> Raise],
      [ctor |-> "ok", get_info |-> Info(Num(700), None, None, None), info |-> Raise] }
PlainInfoFetches ==
    { [ctor |-> "ok", get_info |-> EmptyInfo, info |-> Raise],
      [ctor |-> "ok", get_info |-> Info(Num(700), None, None, None), info |-> Raise],
      [ctor |-> "ok", get_info |-> Raise,
       info |-> Info(None, None, Num(100000000), None)] }
FewHistories == {NoBars, Bars(Num(25))}

Next ==
    \/ Begin(FewCsvFiles)
    \/ Step(FastFetches, Histories, FewInfoFetches)
    \/ Finish

Spec == Init /\ [][Next]_vars

NextShares ==
    \/ Begin(FewCsvFiles)
    \/ Step(FewFastFetches, FewHistories, InfoFetches)
    \/ Finish

SpecShares == Init /\ [][NextShares]_vars

NextOverrides ==
    \/ Begin(CsvFiles)
    \/ Step(OneFastFetch, {NoBars}, PlainInfoFetches)
    \/ Finish

SpecOverrides == Init /\ [][NextOverrides]_vars

(***************************************************************************)
(* Properties.                                                             *)
(***************************************************************************)
RowIndexes == 1..Len(rows)
MissingSet == {missing[n] : n \in 1..Len(missing)}
CycleComplete ==
    /\ pc = "done"
    /\ Len(rows) = Len(UpperTickers)
    /\ \A n \in RowIndexes : rows[n].Ticker = UpperTickers[n]

\* The positive counts the loaded overrides hold for ticker t, in file order.
PositiveOverrides(t) ==
    SelectSeq(overrides, LAMBDA r : r.ticker = t /\ r.shares_outstanding > 0)

\* C1: after a refresh cycle every ticker has its row, and in every row
\* the estimated AUM is price x shares when both were resolved (NaN when
\* the price is NaN) and is absent, never 0 or another default, when
\* either one is absent.
C1_AumIsPriceTimesShares ==
    /\ pc = "done" => CycleComplete
    /\ \A n \in RowIndexes :
         LET price == rows[n].LastPrice
             shares == rows[n].SharesOutstanding
             aum == rows[n].EstAumUSD
         IN  /\ (IsNum(price) /\ IsNum(shares)) => aum = Num(price.v * shares.v)
             /\ (price = NaN /\ IsNum(shares)) => aum = NaN
             /\ (price = None \/ shares = None) => aum = None

C1_Witness ==
    /\ pc = "done"
    /\ rows[1].LastPrice = Num(10) /\ rows[1].SharesOutstanding = Num(300)
    /\ rows[1].EstAumUSD = Num(3000)
    /\ rows[2].LastPrice = Num(25) /\ rows[2].SharesOutstanding = None
    /\ rows[2].EstAumUSD = None

\* The sum of the AUM of the rows that are valued with a number.
RECURSIVE SumOfValued(_)
SumOfValued(n) ==
    IF n = 0 THEN 0
    ELSE SumOfValued(n - 1) + (IF IsNum(rows[n].EstAumUSD) THEN rows[n].EstAumUSD.v ELSE 0)

\* C2: after a refresh cycle the total is the sum of the AUM of exactly
\* the rows that carry a value; a row whose AUM is absent (None, or NaN,
\* which the display and the DataFrame treat as missing) adds nothing, and
\* with no row valued the total is 0.
C2_TotalIsSumOfPresent ==
    pc = "done" => total_est = Num(SumOfValued(Len(rows)))

C2_Witness ==
    /\ pc = "done"
    /\ rows[1].EstAumUSD = NaN
    /\ rows[2].EstAumUSD = Num(17500)
    /\ total_est = Num(17500)

\* C3: a ticker that has a positive override record resolves to an
\* override value, whatever the fundamentals and the price are.
C3_OverridePrecedence ==
    \A n \in RowIndexes :
      LET pos == PositiveOverrides(rows[n].Ticker) IN
      Len(pos) > 0 =>
        \E m \in 1..Len(pos) : rows[n].SharesOutstanding = Num(pos[m].shares_outstanding)

\* C4: a ticker is in the missing-shares list exactly when the cycle has
\* produced its row with absent shares; an absent price alone does not put
\* it there, and the list never carries an entry of an earlier cycle.
C4_MissingIffSharesAbsent ==
    /\ \A t \in TickerSet :
         t \in MissingSet <=>
           \E n \in RowIndexes : rows[n].Ticker = t /\ rows[n].SharesOutstanding = None
    /\ Len(missing) <= Len(rows)

C4_Witness ==
    /\ pc = "done"
    /\ rows[1].LastPrice = None /\ rows[1].SharesOutstanding = Num(700)
    /\ rows[2].SharesOutstanding = None
    /\ missing = <<UpperTickers[2]>>

\* C5: no failure of the provider stops a cycle: the script never ends on
\* an exception, and a finished cycle has one row per ticker, in order,
\* and a numeric total.
C5_FailureIsolation ==
    /\ pc # "crashed"
    /\ pc = "done" => (CycleComplete /\ IsNum(total_est))

\* C6: a resolved price is absent or a positive number.
C6_PriceAbsentOrPositive ==
    \A n \in RowIndexes : rows[n].LastPrice = None \/ Positive(rows[n].LastPrice)

\* The total-assets figure of a fundamentals snapshot, when it has one.
AssetsFigure(info) ==
    IF Positive(info.totalAssets) THEN info.totalAssets
    ELSE IF Positive(info.netAssets) THEN info.netAssets
    ELSE None

\* C7: for a ticker without a positive override and without a positive
\* direct shares field, the resolved shares are floor(total assets / price)
\* when there is a total-assets figure, the price is a positive number and
\* the quotient is positive, and are absent otherwise, in particular when
\* the price is absent or 0.
C7_TotalAssetsFallback ==
    \A n \in RowIndexes :
      LET t == rows[n].Ticker
          price == rows[n].LastPrice
          info == info_cache[t]
      IN  Len(PositiveOverrides(t)) = 0 =>
            /\ info # NotCached
            /\ (~Positive(info.sharesOutstanding) /\ ~Positive(info.fundSharesOutstanding))
               => rows[n].SharesOutstanding =
                    IF /\ AssetsFigure(info) # None
                       /\ Positive(price)
                       /\ AssetsFigure(info).v \div price.v > 0
                    THEN Num(AssetsFigure(info).v \div price.v)
                    ELSE None

C7_Witness ==
    /\ pc = "done"
    /\ overrides = EmptyFrame
    /\ info_cache[rows[1].Ticker] = Info(None, None, Num(100000000), None)
    /\ rows[1].LastPrice = Num(50) /\ rows[1].SharesOutstanding = Num(2000000)
    /\ info_cache[rows[2].Ticker] = Info(None, None, Num(100000000), None)
    /\ rows[2].LastPrice = Num(0) /\ rows[2].SharesOutstanding = None

\* C8: a resolution of a ticker that follows another one inside the same
\* staleness window of its quote returns the same price and calls the
\* provider for no price data; one that finds the fundamentals cached
\* calls the provider for no fundamentals.
C8_IdempotentWithinWindow ==
    [][ (pc = "loop" /\ pc' = "loop" /\ i' = i + 1) =>
          LET t == UpperTickers[i] IN
          (resolved[t] # NoRes /\ provider_calls'.quote_hit) =>
             /\ resolved'[t] = resolved[t]
             /\ provider_calls'.price = 0 ]_vars

\* C9: the override used for a ticker is the count of the last row of
\* that ticker that survives loading; a row with a non-positive count is
\* discarded and can neither be used nor hide a valid row.
C9_LastRowWins ==
    \A n \in RowIndexes :
      LET pos == PositiveOverrides(rows[n].Ticker) IN
      Len(pos) > 0 =>
        rows[n].SharesOutstanding = Num(pos[Len(pos)].shares_outstanding)

\* C10: a failed load of the overrides gives the empty frame, the cycle
\* goes on, and every ticker's shares are what the fundamentals alone give.
C10_LoadFailureDegradesToEmpty ==
    load_failed =>
      /\ overrides = EmptyFrame
      /\ ov_cache = NotCached \/ ov_cache.df = EmptyFrame
      /\ \A n \in RowIndexes :
           /\ info_cache[rows[n].Ticker] # NotCached
           /\ rows[n].SharesOutstanding =
                InferSharesFromInfo(info_cache[rows[n].Ticker], rows[n].LastPrice)

C10_Witness ==
    /\ load_failed
    /\ pc = "done"
    /\ rows[1].SharesOutstanding = Num(700)
    /\ rows[2].SharesOutstanding = Num(10000000)

====
